---- MODULE Spec2Model ----
(***************************************************************************)
(* devbox: a CLI that remembers, per SSH host, the containers found there  *)
(* (a JSON file in the user's home directory) and runs ssh/docker command  *)
(* lines.  Model of src/src/main.rs.                                       *)
(*                                                                         *)
(* Text is a sequence of tokens: a token is one whitespace character or a  *)
(* run of non-whitespace characters; Str(t) is the string it spells.       *)
(* An invocation of the program is a process p; its position is pc[p].     *)
(* Spec runs invocations one after another (process 1 only); SpecConc runs *)
(* two `init` invocations concurrently against the same persisted file.    *)
(***************************************************************************)
EXTENDS Integers, Sequences, FiniteSets, TLC

VARIABLES
    file,      \* the persisted file ~/.devbox_storage.json
    pc,        \* pc[p]: where invocation p stands
    args,      \* args[p]: subcommand and its positional arguments
    children,  \* children[p]: the child processes p ran, in order, with their outcomes
    names,     \* names[p]: container_names of initialize_containers
    storage,   \* storage[p]: the DevboxStorage p holds in memory
    loadSaw,   \* loadSaw[p]: what load_storage returned to p
    network,   \* network[p]: network_name of fetch_container_ip
    cmdline,   \* cmdline[p]: the shell command handed to execute_command
    out,       \* out[p]: the lines p printed, in order
    exit,      \* exit[p]: "running", "normal" or "panic"
    raised,    \* raised[p]: the kinds of the errors the steps of p returned to it
    faulted,   \* faulted[p]: a local file operation of p failed
    file0,     \* file0[p]: the persisted file when p started
    prev,      \* the invocation that ran before this one, when it was an init that saved
    writes     \* the opens and writes of the file by each process's invocation, in order

vars == <<file, pc, args, children, names, storage, loadSaw, network, cmdline,
          out, exit, raised, faulted, file0, prev, writes>>

Procs == {1, 2}

Hosts == {"hostA", "hostB"}

ContainerArgs == {"web"}

PortArgs == {"8080"}

\* What `docker ps -a --format {{.Names}}` may print on the remote host.
RemoteListings ==
    { <<>>,
      <<"web", "\n">>,
      <<"db">>,
      <<"web", "\n", " ", "db", " ", "\n", "\n">> }

\* What the network-name query may print.
NetworkOutputs == { <<>>, <<"\n">>, <<"bridge", "\n">> }

\* What the IP-address query may print.
IpOutputs == { <<"\n">>, <<"172.17.0.2", "\n">> }

\* The stderr of a failed remote command.
ChildStderr == "ssh: remote command failed\n"

------------------------------------------------------------------------------
(* Text *)

IsSpace(t) == t \in {" ", "\n", "\t"}

RECURSIVE Str(_)
Str(s) == IF s = <<>> THEN "" ELSE Head(s) \o Str(Tail(s))

RECURSIVE TrimStart(_)
TrimStart(s) ==
    IF s = <<>> THEN <<>>
    ELSE IF IsSpace(Head(s)) THEN TrimStart(Tail(s)) ELSE s

RECURSIVE TrimEnd(_)
TrimEnd(s) ==
    IF s = <<>> THEN <<>>
    ELSE IF IsSpace(s[Len(s)]) THEN TrimEnd(SubSeq(s, 1, Len(s) - 1)) ELSE s

\* str::trim
Trim(s) == TrimEnd(TrimStart(s))

RECURSIVE LinesFrom(_, _)
LinesFrom(s, cur) ==
    IF s = <<>> THEN (IF cur = <<>> THEN <<>> ELSE <<cur>>)
    ELSE IF Head(s) = "\n" THEN <<cur>> \o LinesFrom(Tail(s), <<>>)
    ELSE LinesFrom(Tail(s), Append(cur, Head(s)))

\* str::lines: split at "\n"; a final line ending adds no empty line
Lines(s) == LinesFrom(s, <<>>)

\* .lines().map(|line| line.trim().to_string()).collect()
ContainerNames(stdout) ==
    LET L == Lines(stdout) IN [i \in 1..Len(L) |-> Str(Trim(L[i]))]

------------------------------------------------------------------------------
(* Storage *)

\* HashMap::new()
EmptyReg == [h \in {} |-> <<>>]

\* Mutant of Insert: entry(k).or_insert(v), an existing entry is kept.
InsertIfAbsent(reg, k, v) ==
    [h \in DOMAIN reg \cup {k} |-> IF h \in DOMAIN reg THEN reg[h] ELSE v]

\* Mutant of Insert: entry(k).or_default().extend(v), the new names are
\* appended to the existing entry.
InsertAppend(reg, k, v) ==
    [h \in DOMAIN reg \cup {k} |->
        IF h # k THEN reg[h] ELSE IF h \in DOMAIN reg THEN reg[h] \o v ELSE v]

\* HashMap::insert: the entry of k is v whatever it was
Insert(reg, k, v) ==
    [h \in DOMAIN reg \cup {k} |-> IF h = k THEN v ELSE reg[h]]

RECURSIVE SumLen(_)
SumLen(list) ==
    IF list = <<>> THEN 0 ELSE Len(Head(list)) + 2 + SumLen(Tail(list))

\* bytes of ["a","b"]: brackets, quoted names, commas
ListLen(list) ==
    2 + SumLen(list) + (IF Len(list) > 1 THEN Len(list) - 1 ELSE 0)

RECURSIVE EntriesLen(_, _)
EntriesLen(reg, hs) ==
    IF hs = {} THEN 0
    ELSE LET h == CHOOSE x \in hs : TRUE
         IN  Len(h) + 3 + ListLen(reg[h]) + EntriesLen(reg, hs \ {h})

\* bytes serde_json::to_writer produces for {"containers":{...}}
SerLen(reg) ==
    LET n == Cardinality(DOMAIN reg)
    IN  Len("{\"containers\":{") + EntriesLen(reg, DOMAIN reg)
        + (IF n > 1 THEN n - 1 ELSE 0) + Len("}}")

\* The file: absent; or present and holding a complete document `doc`
\* followed by `tail` further bytes; or present and holding no document.
AbsentFile == [exists |-> FALSE, hasDoc |-> FALSE, doc |-> EmptyReg, tail |-> 0]

\* Mutant of Truncated: the open without truncate(true), an existing file
\* keeps its bytes.
TruncatedKeeps(f) ==
    IF f.exists THEN f
    ELSE [exists |-> TRUE, hasDoc |-> FALSE, doc |-> [h \in {} |-> <<>>], tail |-> 0]

\* OpenOptions ... truncate(true).open: the file exists with length 0
Truncated(f) == [exists |-> TRUE, hasDoc |-> FALSE, doc |-> EmptyReg, tail |-> 0]

DocFile(reg, t) == [exists |-> TRUE, hasDoc |-> TRUE, doc |-> reg, tail |-> t]

FileLen(f) == (IF f.hasDoc THEN SerLen(f.doc) ELSE 0) + f.tail

\* One write of the whole document at offset 0 of a handle opened for
\* writing: bytes of the file beyond the document stay.
Written(f, reg) ==
    DocFile(reg, IF FileLen(f) > SerLen(reg) THEN FileLen(f) - SerLen(reg) ELSE 0)

\* io::Error values
OsError == [kind |-> "Os", msg |-> "os error"]

ParseError == [kind |-> "InvalidData", msg |-> "invalid JSON"]

Other(m) == [kind |-> "Other", msg |-> m]

Ok(v) == [ok |-> TRUE, val |-> v, err |-> OsError]

Err(e) == [ok |-> FALSE, val |-> EmptyReg, err |-> e]

NoLoad == [ok |-> FALSE, val |-> EmptyReg, err |-> Other("not loaded")]

\* serde_json::from_reader into DevboxStorage: a complete document and
\* nothing but whitespace after it
Parses(f) == f.hasDoc /\ f.tail = 0

\* load_storage; openFails: File::open of the existing file fails
LoadStorage(f, openFails) ==
    IF ~f.exists THEN Ok(EmptyReg)
    ELSE IF openFails THEN Err(OsError)
    ELSE IF Parses(f) THEN Ok(f.doc)
    ELSE Err(ParseError)

\* load_storage().unwrap_or_else(|_| DevboxStorage { containers: HashMap::new() })
UnwrapOrEmpty(r) == IF r.ok THEN r.val ELSE EmptyReg

------------------------------------------------------------------------------
(* Command builder and reports *)

\* Mutant of ExitOk: the exit status is not looked at.
ExitOkAlways(status) == TRUE

\* status.success()
ExitOk(status) == status = 0

\* Mutant of IsEmpty: the check for an empty result is missing.
IsEmptyNever(s) == FALSE

\* network_name.is_empty() / ip_address.is_empty()
IsEmpty(s) == s = ""

ListQuery == "docker ps -a --format {{.Names}}"

NetworkQuery(container) ==
    "docker inspect " \o container
        \o " | jq -r '.[0].NetworkSettings.Networks | keys[0]'"

IpQuery(container, net) ==
    "docker inspect " \o container
        \o " | jq -r '.[0].NetworkSettings.Networks[\"" \o net \o "\"].IPAddress'"

\* format!("ssh {} -t 'docker exec -it {} bash -c \"tmux ...\"'", sshname, container)
AttachCommand(sshname, container) ==
    "ssh " \o sshname \o " -t 'docker exec -it " \o container
        \o " bash -c \"tmux attach-session -t nvim || tmux new-session -s nvim\"'"

\* Mutant of ForwardCommand: the address and the port change places.
ForwardCommandSwapped(port, ip, sshname) ==
    "ssh -L " \o ip \o ":" \o port \o ":" \o ip \o " " \o sshname \o " -N"

\* format!("ssh -L {0}:{1}:{0} {2} -N", port, container_ip, sshname)
ForwardCommand(port, ip, sshname) ==
    "ssh -L " \o port \o ":" \o ip \o ":" \o port \o " " \o sshname \o " -N"

NvimContext(container) == "Neovim in container '" \o container \o "'"

FpContext(container) == "Port forwarding for container '" \o container \o "'"

StdOut(text) == [fd |-> "stdout", text |-> text]

StdErr(text) == [fd |-> "stderr", text |-> text]

\* main, the arm of "init": what it prints for the result of initialize_containers
InitReport(sshname, r) ==
    IF r.ok THEN StdOut("Initialized containers for SSH name: " \o sshname)
    ELSE StdErr("Error initializing containers: " \o r.err.msg)

\* main, the arm of "fp": what it prints when fetch_container_ip fails
FpFailure(container, e) ==
    StdErr("Failed to fetch IP for container '" \o container \o "': " \o e.msg)

RECURSIVE DebugItems(_)
DebugItems(list) ==
    IF list = <<>> THEN ""
    ELSE "\"" \o Head(list) \o "\""
         \o (IF Len(list) > 1 THEN ", " ELSE "") \o DebugItems(Tail(list))

\* {:?} of a Vec<String>
DebugList(list) == "[" \o DebugItems(list) \o "]"

\* main, the arm of "list": the header, then one line per entry in the
\* order `order` in which the HashMap yields them
ListReport(reg, order) ==
    <<StdOut("Stored containers by SSH name:")>>
    \o [i \in 1..Len(order) |->
            StdOut("- " \o order[i] \o ": " \o DebugList(reg[order[i]]))]

Orders(S) ==
    {o \in [1..Cardinality(S) -> S] : \A i, j \in 1..Cardinality(S) : o[i] = o[j] => i = j}

------------------------------------------------------------------------------
(* Invocations *)

NoArgs == [cmd |-> "none", sshname |-> "", container |-> "", port |-> ""]

Invocations ==
    {NoArgs}
    \cup {[cmd |-> "init", sshname |-> h, container |-> "", port |-> ""] : h \in Hosts}
    \cup {[cmd |-> "list", sshname |-> "", container |-> "", port |-> ""]}
    \cup {[cmd |-> "nvim", sshname |-> h, container |-> c, port |-> ""] :
            h \in Hosts, c \in ContainerArgs}
    \cup {[cmd |-> "fp", sshname |-> h, container |-> c, port |-> q] :
            h \in Hosts, c \in ContainerArgs, q \in PortArgs}

InitInvocations == {a \in Invocations : a.cmd = "init"}

\* A child process: the program, its last argument, whether it could be
\* run, its exit status and its standard output.
Failed(prog, arg) ==
    [prog |-> prog, arg |-> arg, spawned |-> FALSE, status |-> 1, stdout |-> <<>>]

Exited(prog, arg, status, stdout) ==
    [prog |-> prog, arg |-> arg, spawned |-> TRUE, status |-> status, stdout |-> stdout]

NoNetwork == [name |-> "", ip |-> ""]

NoCommand == [command |-> "", context |-> ""]

NoPrev == [host |-> "", names |-> <<>>]

\* Most stray bytes after the document of the file the model starts from.
MaxStray == 1

\* Registries a valid persisted file may hold when the model starts.
StartRegs ==
    { EmptyReg,
      Insert(EmptyReg, "hostB", <<"web">>),
      Insert(Insert(EmptyReg, "hostA", <<"db">>), "hostB", <<"web", "db", "">>) }

\* The persisted file when the model starts: absent, a valid document, an
\* empty file, or a document followed by stray bytes.
StartFiles ==
    {AbsentFile, Truncated(AbsentFile)}
    \cup {DocFile(r, 0) : r \in StartRegs}
    \cup {DocFile(Insert(EmptyReg, "hostB", <<"web">>), t) : t \in 1..MaxStray}

Init ==
    /\ file \in StartFiles
    /\ pc = [p \in Procs |-> "idle"]
    /\ args = [p \in Procs |-> NoArgs]
    /\ children = [p \in Procs |-> <<>>]
    /\ names = [p \in Procs |-> <<>>]
    /\ storage = [p \in Procs |-> EmptyReg]
    /\ loadSaw = [p \in Procs |-> NoLoad]
    /\ network = [p \in Procs |-> NoNetwork]
    /\ cmdline = [p \in Procs |-> NoCommand]
    /\ out = [p \in Procs |-> <<>>]
    /\ exit = [p \in Procs |-> "normal"]
    /\ raised = [p \in Procs |-> {}]
    /\ faulted = [p \in Procs |-> FALSE]
    /\ file0 = [p \in Procs |-> file]
    /\ prev = NoPrev
    /\ writes = <<>>

\* p wrote the persisted file in this invocation.
Wrote(p) == \E i \in 1..Len(writes) : writes[i] = [proc |-> p, op |-> "write"]

\* p has finished an `init` all of whose steps succeeded.
CleanInit(p) ==
    /\ pc[p] = "done"
    /\ args[p].cmd = "init"
    /\ ~faulted[p]
    /\ Wrote(p)

\* The process ends: it has printed `lines` and exits with `ex`.
Finish(p, lines, ex) ==
    /\ pc' = [pc EXCEPT ![p] = "done"]
    /\ out' = [out EXCEPT ![p] = out[p] \o lines]
    /\ exit' = [exit EXCEPT ![p] = ex]

Raise(p, kinds) == raised' = [raised EXCEPT ![p] = raised[p] \cup kinds]

Ran(p, c) == children' = [children EXCEPT ![p] = Append(children[p], c)]

\* main: clap has parsed the arguments `a`; the subcommand is dispatched.
Start(p, a) ==
    /\ pc[p] \in {"idle", "done"}
    /\ args' = [args EXCEPT ![p] = a]
    /\ children' = [children EXCEPT ![p] = <<>>]
    /\ names' = [names EXCEPT ![p] = <<>>]
    /\ storage' = [storage EXCEPT ![p] = EmptyReg]
    /\ loadSaw' = [loadSaw EXCEPT ![p] = NoLoad]
    /\ network' = [network EXCEPT ![p] = NoNetwork]
    /\ raised' = [raised EXCEPT ![p] = {}]
    /\ faulted' = [faulted EXCEPT ![p] = FALSE]
    /\ file0' = [file0 EXCEPT ![p] = file]
    /\ prev' = IF CleanInit(p)
               THEN [host |-> args[p].sshname, names |-> names[p]]
               ELSE NoPrev
    /\ writes' = SelectSeq(writes, LAMBDA e : e.proc # p)
    /\ cmdline' = [cmdline EXCEPT ![p] =
            IF a.cmd = "nvim"
            THEN [command |-> AttachCommand(a.sshname, a.container),
                  context |-> NvimContext(a.container)]
            ELSE NoCommand]
    /\ IF a.cmd = "none"
       THEN /\ pc' = [pc EXCEPT ![p] = "done"]
            /\ out' = [out EXCEPT ![p] = <<StdErr("No valid subcommand was provided")>>]
            /\ exit' = [exit EXCEPT ![p] = "normal"]
       ELSE /\ pc' = [pc EXCEPT ![p] =
                    CASE a.cmd = "init" -> "init_ssh"
                      [] a.cmd = "nvim" -> "exec"
                      [] a.cmd = "list" -> "list_load"
                      [] a.cmd = "fp" -> "fp_net"]
            /\ out' = [out EXCEPT ![p] = <<>>]
            /\ exit' = [exit EXCEPT ![p] = "running"]
    /\ UNCHANGED file

\* initialize_containers, lines 177-192: the remote listing.
InitSsh(p) ==
    /\ pc[p] = "init_ssh"
    /\ \/ \* .output()? fails: ssh could not be run
          /\ Ran(p, Failed("ssh", ListQuery))
          /\ Raise(p, {"Os"})
          /\ Finish(p, <<InitReport(args[p].sshname, Err(OsError))>>, "normal")
          /\ UNCHANGED names
       \/ \E status \in {0, 1}, stdout \in RemoteListings :
            /\ Ran(p, Exited("ssh", ListQuery, status, stdout))
            /\ IF ~ExitOk(status)
               THEN /\ Raise(p, {"Other"})
                    /\ Finish(p, <<InitReport(args[p].sshname,
                            Err(Other("Failed to fetch container names over SSH")))>>,
                          "normal")
                    /\ UNCHANGED names
               ELSE /\ names' = [names EXCEPT ![p] = ContainerNames(stdout)]
                    /\ pc' = [pc EXCEPT ![p] = "init_load"]
                    /\ UNCHANGED <<out, exit, raised>>
    /\ UNCHANGED <<file, args, storage, loadSaw, network, cmdline, faulted,
                   file0, prev, writes>>

\* initialize_containers, lines 194-197: load, fall back to an empty
\* registry on any error, insert the host's entry.
InitLoad(p) ==
    /\ pc[p] = "init_load"
    /\ \E openFails \in BOOLEAN :
         /\ openFails => file.exists
         /\ LET r == LoadStorage(file, openFails) IN
              /\ loadSaw' = [loadSaw EXCEPT ![p] = r]
              /\ storage' = [storage EXCEPT ![p] =
                    Insert(UnwrapOrEmpty(r), args[p].sshname, names[p])]
              /\ Raise(p, IF r.ok THEN {} ELSE {r.err.kind})
         /\ faulted' = [faulted EXCEPT ![p] = faulted[p] \/ openFails]
    /\ pc' = [pc EXCEPT ![p] = "save_open"]
    /\ UNCHANGED <<file, args, children, names, network, cmdline, out,
                   exit, file0, prev, writes>>

\* save_storage, lines 216-221: open for writing, creating and truncating.
SaveOpen(p) ==
    /\ pc[p] = "save_open"
    /\ \/ \* .open(path)? fails: the file is left as it is
          /\ Raise(p, {"Os"})
          /\ faulted' = [faulted EXCEPT ![p] = TRUE]
          /\ Finish(p, <<InitReport(args[p].sshname, Err(OsError))>>, "normal")
          /\ UNCHANGED <<file, writes>>
       \/ /\ file' = Truncated(file)
          /\ writes' = Append(writes, [proc |-> p, op |-> "open"])
          /\ pc' = [pc EXCEPT ![p] = "save_write"]
          /\ UNCHANGED <<out, exit, raised, faulted>>
    /\ UNCHANGED <<args, children, names, storage, loadSaw, network, cmdline,
                   file0, prev>>

\* save_storage, lines 222-223, then main's report.  The document is far
\* smaller than the BufWriter's buffer, so to_writer only fills the buffer
\* and returns Ok; the bytes reach the file in one write when the BufWriter
\* is dropped, and an error of that write is ignored.
SaveWrite(p) ==
    /\ pc[p] = "save_write"
    /\ \/ /\ file' = Written(file, storage[p])
          /\ writes' = Append(writes, [proc |-> p, op |-> "write"])
          /\ UNCHANGED <<raised, faulted>>
       \/ \* the write fails: the file stays as it is, no error is returned
          /\ faulted' = [faulted EXCEPT ![p] = TRUE]
          /\ UNCHANGED <<file, writes, raised>>
    /\ Finish(p, <<InitReport(args[p].sshname, Ok(EmptyReg))>>, "normal")
    /\ UNCHANGED <<args, children, names, storage, loadSaw, network, cmdline,
                   file0, prev>>

\* main, the arm of "list": load_storage, then the entries or the error.
ListLoad(p) ==
    /\ pc[p] = "list_load"
    /\ \E openFails \in BOOLEAN :
         /\ openFails => file.exists
         /\ faulted' = [faulted EXCEPT ![p] = openFails]
         /\ LET r == LoadStorage(file, openFails) IN
              /\ loadSaw' = [loadSaw EXCEPT ![p] = r]
              /\ Raise(p, IF r.ok THEN {} ELSE {r.err.kind})
              /\ IF r.ok
                 THEN \E order \in Orders(DOMAIN r.val) :
                        Finish(p, ListReport(r.val, order), "normal")
                 ELSE Finish(p, <<StdErr("Error loading storage: " \o r.err.msg)>>,
                             "normal")
    /\ UNCHANGED <<file, args, children, names, storage, network, cmdline,
                   file0, prev, writes>>

\* fetch_container_ip, lines 117-143: the network-name query.
FpNet(p) ==
    /\ pc[p] = "fp_net"
    /\ LET q == NetworkQuery(args[p].container) IN
       \/ \* .output()? fails
          /\ Ran(p, Failed("ssh", q))
          /\ Raise(p, {"Os"})
          /\ Finish(p, <<FpFailure(args[p].container, OsError)>>, "normal")
          /\ UNCHANGED network
       \/ \E status \in {0, 1}, stdout \in NetworkOutputs :
            /\ Ran(p, Exited("ssh", q, status, stdout))
            /\ IF ~ExitOk(status)
               THEN /\ Raise(p, {"Other"})
                    /\ Finish(p,
                          <<StdErr("Error fetching network name: " \o ChildStderr),
                            FpFailure(args[p].container,
                              Other("Failed to fetch container network name over SSH"))>>,
                          "normal")
                    /\ UNCHANGED network
               ELSE IF IsEmpty(Str(Trim(stdout)))
               THEN /\ Raise(p, {"Other"})
                    /\ Finish(p,
                          <<FpFailure(args[p].container,
                              Other("No network found for the specified container"))>>,
                          "normal")
                    /\ UNCHANGED network
               ELSE /\ network' = [network EXCEPT ![p].name = Str(Trim(stdout))]
                    /\ pc' = [pc EXCEPT ![p] = "fp_ip"]
                    /\ UNCHANGED <<out, exit, raised>>
    /\ UNCHANGED <<file, args, names, storage, loadSaw, cmdline, faulted, file0,
                   prev, writes>>

\* fetch_container_ip, lines 145-173: the IP-address query; then main
\* builds the forward command.
FpIp(p) ==
    /\ pc[p] = "fp_ip"
    /\ LET q == IpQuery(args[p].container, network[p].name) IN
       \/ \* .output()? fails
          /\ Ran(p, Failed("ssh", q))
          /\ Raise(p, {"Os"})
          /\ Finish(p, <<FpFailure(args[p].container, OsError)>>, "normal")
          /\ UNCHANGED <<network, cmdline>>
       \/ \E status \in {0, 1}, stdout \in IpOutputs :
            /\ Ran(p, Exited("ssh", q, status, stdout))
            /\ IF ~ExitOk(status)
               THEN /\ Raise(p, {"Other"})
                    /\ Finish(p,
                          <<StdErr("Error fetching IP address: " \o ChildStderr),
                            FpFailure(args[p].container,
                              Other("Failed to fetch container IP address over SSH"))>>,
                          "normal")
                    /\ UNCHANGED <<network, cmdline>>
               ELSE IF IsEmpty(Str(Trim(stdout)))
               THEN /\ Raise(p, {"Other"})
                    /\ Finish(p,
                          <<FpFailure(args[p].container,
                              Other("No IP address assigned to the container on the detected network"))>>,
                          "normal")
                    /\ UNCHANGED <<network, cmdline>>
               ELSE /\ network' = [network EXCEPT ![p].ip = Str(Trim(stdout))]
                    /\ cmdline' = [cmdline EXCEPT ![p] =
                          [command |-> ForwardCommand(args[p].port,
                                         Str(Trim(stdout)), args[p].sshname),
                           context |-> FpContext(args[p].container)]]
                    /\ pc' = [pc EXCEPT ![p] = "exec"]
                    /\ UNCHANGED <<out, exit, raised>>
    /\ UNCHANGED <<file, args, names, storage, loadSaw, faulted, file0, prev,
                   writes>>

\* execute_command: sh -c <command>, waited for; .expect panics when the
\* shell cannot be run.
Exec(p) ==
    /\ pc[p] = "exec"
    /\ \/ /\ Ran(p, Failed("sh", cmdline[p].command))
          /\ Raise(p, {"Os"})
          /\ Finish(p, <<StdErr("Failed to execute command: " \o OsError.msg)>>, "panic")
       \/ \E status \in {0, 1} :
            /\ Ran(p, Exited("sh", cmdline[p].command, status, <<>>))
            /\ IF ExitOk(status)
               THEN /\ Finish(p, <<StdOut("Successfully executed "
                            \o cmdline[p].context \o " command.")>>, "normal")
                    /\ UNCHANGED raised
               ELSE /\ Finish(p, <<StdErr("Failed to execute "
                            \o cmdline[p].context \o " command.")>>, "normal")
                    /\ Raise(p, {"ExitStatus"})
    /\ UNCHANGED <<file, args, names, storage, loadSaw, network, cmdline,
                   faulted, file0, prev, writes>>

------------------------------------------------------------------------------
(* Specifications *)

\* One invocation at a time: each runs to its end before the next starts.
Next ==
    \/ \E a \in Invocations : Start(1, a)
    \/ InitSsh(1)
    \/ InitLoad(1)
    \/ SaveOpen(1)
    \/ SaveWrite(1)
    \/ ListLoad(1)
    \/ FpNet(1)
    \/ FpIp(1)
    \/ Exec(1)

Spec == Init /\ [][Next]_vars

\* Two invocations of `init`, one per process, running concurrently.
StartInit(p, a) == pc[p] = "idle" /\ Start(p, a)

NextConc ==
    \E p \in Procs :
        \/ \E a \in InitInvocations : StartInit(p, a)
        \/ InitSsh(p)
        \/ InitLoad(p)
        \/ SaveOpen(p)
        \/ SaveWrite(p)

SpecConc == Init /\ [][NextConc]_vars

------------------------------------------------------------------------------
(* Properties *)

\* The entry of host h as the persisted file shows it: <<list>>, or <<>>
\* when the file shows none.
Entry(f, h) == IF f.hasDoc /\ h \in DOMAIN f.doc THEN <<f.doc[h]>> ELSE <<>>

\* The remote listing of the running `init` succeeded.
Listed(p) ==
    /\ Len(children[p]) >= 1
    /\ children[p][1].spawned
    /\ children[p][1].status = 0

\* C1. Replacement, not merge: when a successful init of host A (its
\* listing, load and save all succeeded) that fetched L1 is followed by a
\* successful init of A that fetched L2, the persisted file is a valid
\* registry whose entry for A is exactly L2, the names of the second
\* listing in their order.
C1_ReplacementNotMerge ==
    (CleanInit(1) /\ prev # NoPrev /\ prev.host = args[1].sshname)
        => /\ Parses(file)
           /\ Entry(file, args[1].sshname)
                = <<ContainerNames(children[1][1].stdout)>>

\* A second init of the same host has saved a list that differs from the
\* first one's, both non-empty.
C1_Witness ==
    /\ CleanInit(1)
    /\ prev.host = args[1].sshname
    /\ prev.names = <<"web", "db", "">>
    /\ names[1] = <<"db">>
    /\ Entry(file, args[1].sshname) = <<(<<"db">>)>>

\* C2. No deletion: when an invocation has ended (its file operations all
\* having succeeded), every host's entry in the persisted file is what it
\* was when the invocation started, but for the entry of the host an init
\* was run for; and this whatever the file held at the start.
C2_OnlyOwnEntryChanges ==
    (pc[1] = "done" /\ ~faulted[1])
        => \A h \in Hosts :
              \/ args[1].cmd = "init" /\ h = args[1].sshname
              \/ Entry(file, h) = Entry(file0[1], h)

\* C3. A load of a present, unparseable file fails with InvalidData and
\* the caller gets the error: it does not go on with an empty registry.
C3_CorruptLoadFails ==
    (file0[1].exists /\ ~Parses(file0[1]) /\ loadSaw[1] # NoLoad /\ ~faulted[1])
        => /\ loadSaw[1] = Err(ParseError)
           /\ storage[1] = EmptyReg
           /\ pc[1] = "done"
           /\ out[1][Len(out[1])].fd = "stderr"

\* C4. Every error raised by a step of a subcommand is reported on
\* standard error, and the subcommand does not report success.
C4_ErrorsReported ==
    (pc[1] = "done" /\ raised[1] # {})
        => /\ \E i \in 1..Len(out[1]) : out[1][i].fd = "stderr"
           /\ \A i \in 1..Len(out[1]) : out[1][i].fd # "stdout"

\* C5. No error is fatal: the process never ends in a panic.
C5_NoPanic == exit[1] # "panic"

\* C6. In fetch_container_ip the second remote query is issued only after
\* the first exited zero with a non-empty trimmed result; when the first
\* exits zero with an empty result, the operation ends at once with the
\* error "No network found ..." and no second child process is run.
C6_NoSecondQueryOnEmpty ==
    (args[1].cmd = "fp" /\ Len(children[1]) >= 1)
        => LET first == children[1][1] IN
           /\ (first.spawned /\ first.status = 0 /\ Str(Trim(first.stdout)) = "")
                => /\ Len(children[1]) = 1
                   /\ pc[1] = "done"
                   /\ out[1] = <<FpFailure(args[1].container,
                                   Other("No network found for the specified container"))>>
           /\ Len(children[1]) >= 2
                => /\ first.spawned
                   /\ first.status = 0
                   /\ Str(Trim(first.stdout)) # ""
                   /\ children[1][2].arg
                        = IpQuery(args[1].container, Str(Trim(first.stdout)))

\* The network-name query succeeded and printed only a line ending.
C6_Witness ==
    /\ args[1].cmd = "fp"
    /\ pc[1] = "done"
    /\ Len(children[1]) = 1
    /\ children[1][1] = Exited("ssh", NetworkQuery("web"), 0, <<"\n">>)

\* The resolution of the container's IP succeeded.
Resolved(p) ==
    /\ Len(children[p]) >= 2
    /\ children[p][2].spawned
    /\ children[p][2].status = 0
    /\ Str(Trim(children[p][2].stdout)) # ""

\* C9. For fp, when the resolution succeeds with address ip the command
\* built, and then run by sh -c, is exactly ssh -L <port>:<ip>:<port> <host> -N;
\* hostA, 8080 and 172.17.0.2 give "ssh -L 8080:172.17.0.2:8080 hostA -N".
\* When the resolution fails no command is run by sh.
C9_ForwardCommand ==
    args[1].cmd = "fp"
        => /\ (Resolved(1) /\ pc[1] = "exec")
                => cmdline[1].command
                     = "ssh -L " \o args[1].port \o ":"
                         \o Str(Trim(children[1][2].stdout)) \o ":"
                         \o args[1].port \o " " \o args[1].sshname \o " -N"
           /\ (Resolved(1) /\ pc[1] = "done")
                => /\ Len(children[1]) = 3
                   /\ children[1][3].prog = "sh"
                   /\ children[1][3].arg
                        = "ssh -L " \o args[1].port \o ":"
                            \o Str(Trim(children[1][2].stdout)) \o ":"
                            \o args[1].port \o " " \o args[1].sshname \o " -N"
                   /\ (args[1].sshname = "hostA" /\ args[1].port = "8080"
                         /\ children[1][2].stdout = <<"172.17.0.2", "\n">>)
                        => children[1][3].arg = "ssh -L 8080:172.17.0.2:8080 hostA -N"
           /\ (pc[1] = "done" /\ ~Resolved(1))
                => \A i \in 1..Len(children[1]) : children[1][i].prog # "sh"

\* fp hostA web 8080 resolved 172.17.0.2 and ran the forward command.
C9_Witness ==
    /\ args[1] = [cmd |-> "fp", sshname |-> "hostA", container |-> "web", port |-> "8080"]
    /\ pc[1] = "done"
    /\ Resolved(1)
    /\ children[1][3] = Exited("sh", "ssh -L 8080:172.17.0.2:8080 hostA -N", 0, <<>>)

\* C8. Idempotence: when an init of a host is followed by an init of the
\* same host that fetched the same list (in both, the listing, the load
\* and the save succeeded), the persisted file after the second is the
\* file after the first, whatever the file held before the first.
C8_InitIdempotent ==
    (CleanInit(1) /\ prev = [host |-> args[1].sshname, names |-> names[1]])
        => file = file0[1]

\* The same non-empty list was saved twice in a row for hostA, beside an
\* entry of hostB.
C8_Witness ==
    /\ CleanInit(1)
    /\ prev = [host |-> "hostA", names |-> <<"web", "db", "">>]
    /\ args[1].sshname = "hostA"
    /\ names[1] = <<"web", "db", "">>
    /\ "hostB" \in DOMAIN file.doc

\* C10. When the remote listing of init cannot be run or exits non-zero,
\* init ends with an error without loading, opening or writing the
\* persisted file, which is as it was when the invocation started.
C10_RemoteFailureLeavesFile ==
    (args[1].cmd = "init" /\ Len(children[1]) >= 1 /\ ~Listed(1))
        => /\ pc[1] = "done"
           /\ loadSaw[1] = NoLoad
           /\ writes = <<>>
           /\ file = file0[1]
           /\ Len(out[1]) = 1
           /\ out[1][1].fd = "stderr"

\* The listing exited non-zero while the file held an entry of the host.
C10_Witness ==
    /\ args[1] = [cmd |-> "init", sshname |-> "hostA", container |-> "", port |-> ""]
    /\ pc[1] = "done"
    /\ children[1][1].spawned
    /\ children[1][1].status = 1
    /\ Entry(file, "hostA") = <<(<<"db">>)>>

\* Both concurrent invocations have written the file.
BothWrote == pc[1] = "done" /\ pc[2] = "done" /\ Wrote(1) /\ Wrote(2)

\* The process whose write came last, and the other one.
LastWriter == writes[Len(writes)].proc

EarlierWriter == CHOOSE p \in Procs : p # LastWriter

PosOf(p, op) == CHOOSE i \in 1..Len(writes) : writes[i] = [proc |-> p, op |-> op]

\* The last writer had opened (and truncated) the file before the other wrote.
Overlapped == PosOf(LastWriter, "open") < PosOf(EarlierWriter, "write")

\* C7 as stated. Later writer wins: after two concurrent init invocations
\* have both saved, the persisted file is exactly the registry written by
\* the one whose write came last.
C7_LaterWriterWins ==
    BothWrote => file = DocFile(storage[LastWriter], 0)

\* C7 as amended. After two concurrent init invocations have both saved
\* (each document in one write), the persisted file starts with the
\* document of the one whose write came
\* last; nothing follows it, unless that one had truncated the file before
\* the other wrote and the other's document is longer: then the other's
\* last bytes follow, as many as its document is longer.
C7_LaterWriterDocument ==
    BothWrote =>
        LET l == SerLen(storage[LastWriter])
            e == SerLen(storage[EarlierWriter])
        IN  file = DocFile(storage[LastWriter],
                           IF Overlapped /\ e > l THEN e - l ELSE 0)

\* Both loaded before either saved, for different hosts: the file is the
\* later writer's registry and the earlier saver's entry is lost.
C7_Witness ==
    /\ BothWrote
    /\ LastWriter = 2
    /\ args[1].sshname # args[2].sshname
    /\ names[1] # <<>>
    /\ Parses(file)
    /\ file.doc = storage[2]
    /\ Entry(file, args[1].sshname) = <<>>

====
